---------------------------- MODULE Spec2Model ----------------------------
(***************************************************************************)
(* Hangman game engine and character n-gram guesser of                     *)
(* Language_Modelling.ipynb.                                               *)
(*                                                                         *)
(* Python strings are modelled as sequences of one-character strings, so   *)
(* that a guess of several characters, the empty guess and the substring   *)
(* test `guess in secret_word` keep their Python meaning.                  *)
(*                                                                         *)
(* The alphabet (string.ascii_lowercase, 26 letters) is cut down to four   *)
(* letters; the evaluation cap max_mistakes=26, which is the alphabet      *)
(* size, is cut down with it.                                              *)
(***************************************************************************)
EXTENDS Integers, Sequences, FiniteSets, TLC

VARIABLES
    pc,            \* position of the hangman call: "start", "loop", "returned", "raised"
    guesser,       \* the guesser argument of hangman: "human" or "trivial_guesser"
    secret_word,   \* hangman's secret_word
    max_mistakes,  \* hangman's max_mistakes
    mask,          \* hangman's mask, a list of characters, "_" for a blank
    guessed,       \* hangman's guessed set
    mistakes,      \* hangman's mistakes counter
    guess,         \* the value the guesser returned in the last turn
    ret,           \* <<>> while nothing is returned, <<m>> once hangman returned m
    outcome,       \* "InProgress", "Won" (return of line 88), "Lost" (return of line 92)
    turns,         \* history: number of loop iterations executed
    wasted_turns,  \* history: turns whose guess was already guessed or is not in the word
    off_contract   \* history: some guess was a repeat or not one letter of the alphabet

gameVars == <<pc, guesser, secret_word, max_mistakes, mask, guessed, mistakes,
              guess, ret, outcome, turns, wasted_turns, off_contract>>

VARIABLES
    train_set,     \* the training words (a list)
    ngram_counts,  \* the global ngram_counts: order 1..5 -> table
    n,             \* the order passed as keyword argument n
    lambdas,       \* the caller's lambdas mapping (order -> weight)
    configured,    \* history: the weights as the caller configured them
    redistributed, \* history: a get_ngram_prob call of ngram_guesser moved weight
    lm_pc,         \* "idle", or "done" after a direct get_ngram_prob call
    prob_call,     \* <<>> or <<the arguments of the get_ngram_prob call>>
    prob_result    \* <<>> or <<the outcome of the get_ngram_prob call>>

lmVars == <<train_set, ngram_counts, n, lambdas, configured, redistributed,
            lm_pc, prob_call, prob_result>>

VARIABLES
    dataset,        \* evaluate_model's dataset (a list of words)
    eval_pc,        \* position of evaluate_model: "off", "loop", "done", "raised"
    eval_i,         \* number of words of the dataset played
    eval_mistakes,  \* evaluate_model's mistakes (the running total)
    avg_mistakes    \* <<>> or <<the fraction evaluate_model returned>>

evalVars == <<dataset, eval_pc, eval_i, eval_mistakes, avg_mistakes>>

VARIABLES
    call_mask,       \* the mask of the direct guesser calls
    call_guessed,    \* the guessed set of the direct guesser calls
    ngram_choice,    \* the outcomes of the ngram_guesser calls made so far, in order
    unigram_choice   \* <<>> or <<the outcome of the unigram_guesser call>>

guessVars == <<call_mask, call_guessed, ngram_choice, unigram_choice>>

vars == <<gameVars, lmVars, evalVars, guessVars>>

-----------------------------------------------------------------------------
(* Bounds and input sets                                                   *)

\* longest secret word
MaxLen == 3
\* largest max_mistakes argument
MaxCap == 4

\* string.ascii_lowercase, cut down to four letters
ascii_lowercase == <<"a", "c", "t", "z">>

Letters == {ascii_lowercase[i] : i \in 1..Len(ascii_lowercase)}

AlphabetSize == Len(ascii_lowercase)

\* str.lower() on one character
LowerChar(ch) ==
    CASE ch = "A" -> "a"
      [] ch = "C" -> "c"
      [] ch = "T" -> "t"
      [] ch = "Z" -> "z"
      [] OTHER -> ch

\* str.lower()
Lower(s) == [i \in 1..Len(s) |-> LowerChar(s[i])]

\* sequences over S of length 0..k
SeqUpTo(S, k) == UNION {[1..m -> S] : m \in 0..k}

\* the secret words tried: every word over three letters, and malformed ones
\* (an upper-case letter, a digit)
WellFormedWords == SeqUpTo({"a", "c", "t"}, MaxLen)

MalformedWords == {<<"C", "a", "t">>, <<"c", "1">>, <<"1">>}

SecretWords == WellFormedWords \cup MalformedWords

\* what a guesser may return: one letter, or the empty string, or several
\* characters
OneLetterGuesses == {<<l>> : l \in Letters}

OtherGuesses == {<< >>, <<"c", "a">>}

Guesses == OneLetterGuesses \cup OtherGuesses

\* line 42: the default max_mistakes=8
DefaultMaxMistakes == 8

Caps == (-1..MaxCap) \cup {DefaultMaxMistakes}

\* the highest order get_ngram_prob scores (line 469)
MaxOrder == 5
\* number of training words
MaxTrain == 2
\* number of weights of a configuration set to 0
MaxZero == 1
\* number of words of an evaluation dataset
MaxData == 2

\* the training words; a training list is a sub-list of it
TrainWords == << <<"c", "a", "t">>, <<"z", "a", "c", "t">>, <<"c", "a", "c", "a", "t">> >>

\* f restricted to the indices in I, in order
RECURSIVE SubList(_, _, _)
SubList(f, I, i) ==
    IF i > Len(f) THEN << >>
    ELSE (IF i \in I THEN <<f[i]>> ELSE << >>) \o SubList(f, I, i + 1)

TrainSets ==
    {SubList(TrainWords, I, 1) :
        I \in {J \in SUBSET (1..Len(TrainWords)) : Cardinality(J) <= MaxTrain}}

\* the weights, in units of 1/(their sum): order k weighs k+1 units, except
\* for the orders in Z, which weigh 0
Weights(k, Z) == [o \in 0..k |-> IF o \in Z THEN 0 ELSE o + 1]

\* line 555: the default lambdas={1:1}
DefaultLambdas == [o \in {1} |-> 1]

\* the lambdas keyword argument: a configuration for the orders 0..k; or an
\* empty mapping, which ngram_guesser replaces by the default
LambdaConfigs(k) ==
    {Weights(k, Z) : Z \in {Y \in SUBSET (0..k) : Cardinality(Y) <= MaxZero}}

\* the symbols of the contexts get_ngram_prob is called with directly
ContextSymbols == {"<s1>", "c", "a"}

\* the words of the evaluation datasets; the last has no letter of the alphabet
DataWords == {<<"c", "a", "t">>, <<"a", "t">>, <<"1">>}

Datasets == SeqUpTo(DataWords, MaxData)

-----------------------------------------------------------------------------
(* Python helpers                                                          *)

\* `x in s` for strings: x is a substring of s
IsSubstring(x, s) ==
    \E i \in 0..(Len(s) - Len(x)) : SubSeq(s, i + 1, i + Len(x)) = x

\* `c == guess` for a character c of the word and a string guess
CharEq(c, g) == Len(g) = 1 /\ g[1] = c

\* `'_' not in mask`
NoBlank(m) == \A i \in 1..Len(m) : m[i] # "_"

\* a reveal that stops at the first occurrence of the guess
RevealFirstOnly(m, w, g) ==
    [i \in 1..Len(m) |->
        IF CharEq(w[i], g) /\ (\A j \in 1..(i - 1) : ~CharEq(w[j], g)) THEN w[i] ELSE m[i]]

\* lines 75-77: reveal every occurrence of the guess
Reveal(m, w, g) == [i \in 1..Len(m) |-> IF CharEq(w[i], g) THEN w[i] ELSE m[i]]

\* a mistake that is not counted
CountMistakeNever(m) == m

\* a mistake that is counted twice
CountMistakeTwice(m) == m + 2

\* lines 71 and 83: mistakes += 1
CountMistake(m) == m + 1

\* a loop that allows one mistake more than the cap
LoopGuardInclusive(m, cap) == m <= cap

\* a loop that stops one mistake short of the cap
LoopGuardShort(m, cap) == m + 1 < cap

\* line 61: while mistakes < max_mistakes
LoopGuard(m, cap) == m < cap

\* line 178: the letters not yet guessed
letter_available(gd) == {l \in Letters : <<l>> \notin gd}

-----------------------------------------------------------------------------
(* Counters, tables and exact fractions                                    *)

RECURSIVE GCD(_, _)
GCD(a, b) == IF b = 0 THEN a ELSE GCD(b, a % b)

\* a fraction <<numerator, denominator>> in lowest terms
Rat(p, q) == LET g == GCD(p, q) IN IF g = 0 THEN <<0, 1>> ELSE <<p \div g, q \div g>>

RatAdd(x, y) == Rat(x[1] * y[2] + y[1] * x[2], x[2] * y[2])

\* Counter(): no key
EmptyCounter == [x \in {} |-> 0]

\* Counter.__getitem__: a missing key reads 0 and is not inserted
CounterGet(c, k) == IF k \in DOMAIN c THEN c[k] ELSE 0

\* c[k] = 1: the count set, not added to
CounterSetOne(c, k) == [x \in (DOMAIN c) \cup {k} |-> IF x = k THEN 1 ELSE c[x]]

\* c[k] += 1
CounterInc(c, k) == [x \in (DOMAIN c) \cup {k} |-> CounterGet(c, x) + (IF x = k THEN 1 ELSE 0)]

RECURSIVE SumOver(_, _)
SumOver(f, S) == IF S = {} THEN 0
                 ELSE LET x == CHOOSE y \in S : TRUE IN f[x] + SumOver(f, S \ {x})

\* sum(c.values())
CounterTotal(c) == SumOver(c, DOMAIN c)

\* a dictionary key that is a string (the bigram table's keys, context[0])
StrKey(s) == [kind |-> "str", syms |-> <<s>>]

\* a dictionary key that is a tuple of symbols
TupleKey(t) == [kind |-> "tuple", syms |-> t]

\* defaultdict(Counter).__getitem__: a missing key is inserted with an empty Counter
TableTouch(tab, key) ==
    IF key \in DOMAIN tab THEN tab
    ELSE [x \in (DOMAIN tab) \cup {key} |-> IF x = key THEN EmptyCounter ELSE tab[x]]

-----------------------------------------------------------------------------
(* convert_word, get_unigram_counts, get_ngram_counts                      *)

\* "<s" + str(i) + ">"
StartSentinel(i) ==
    CASE i = 1 -> "<s1>" [] i = 2 -> "<s2>" [] i = 3 -> "<s3>" [] OTHER -> "<s4>"

\* "</s" + str(i) + ">"
EndSentinel(i) ==
    CASE i = 1 -> "</s1>" [] i = 2 -> "</s2>" [] i = 3 -> "</s3>" [] OTHER -> "</s4>"

\* lines 384-400
convert_word(word, k) ==
    [i \in 1..(k - 1) |-> StartSentinel(i)] \o Lower(word)
        \o [i \in 1..(k - 1) |-> EndSentinel(k - i)]

\* lines 232-234, one word from letter i on
RECURSIVE CountLetters(_, _, _)
CountLetters(c, word, i) ==
    IF i > Len(word) THEN c ELSE CountLetters(CounterInc(c, word[i]), word, i + 1)

\* lines 228-237
RECURSIVE UnigramFrom(_, _, _)
UnigramFrom(c, words, w) ==
    IF w > Len(words) THEN c ELSE UnigramFrom(CountLetters(c, words[w], 1), words, w + 1)

get_unigram_counts(words) == UnigramFrom(EmptyCounter, words, 1)

\* lines 411-418: the key under which the window g of order k is counted
WindowKey(g, k) == IF k = 2 THEN StrKey(g[1]) ELSE TupleKey(SubSeq(g, 1, k - 1))

\* lines 411-418: ngram_counts[key][last] += 1, for the orders 2..5 only
AddNgram(tab, g, k) ==
    IF k \in 2..5
    THEN LET key == WindowKey(g, k)
             t   == TableTouch(tab, key)
         IN  [t EXCEPT ![key] = CounterInc(@, g[k])]
    ELSE tab

\* lines 409-418, the windows of one padded word from window i on
RECURSIVE CountWindows(_, _, _, _)
CountWindows(tab, word, i, k) ==
    IF i > Len(word) - (k - 1) THEN tab
    ELSE CountWindows(AddNgram(tab, SubSeq(word, i, i + k - 1), k), word, i + 1, k)

\* lines 406-418
RECURSIVE NgramFrom(_, _, _, _)
NgramFrom(tab, words, w, k) ==
    IF w > Len(words) THEN tab
    ELSE LET word == convert_word(words[w], k)
         IN  NgramFrom(IF k <= Len(word) THEN CountWindows(tab, word, 1, k) ELSE tab,
                       words, w + 1, k)

\* lines 402-420
get_ngram_counts(words, k) == NgramFrom([x \in {} |-> EmptyCounter], words, 1, k)

\* lines 240, 433-444: the global tables after training
TrainedTables(words) ==
    [k \in 1..5 |-> IF k = 1 THEN get_unigram_counts(words) ELSE get_ngram_counts(words, k)]

-----------------------------------------------------------------------------
(* get_ngram_prob                                                          *)

\* lines 459-465: the key every order is looked up with
Conditional(context) ==
    IF Len(context) > 1 THEN TupleKey(context)
    ELSE IF Len(context) = 1 THEN StrKey(context[1])
    ELSE TupleKey(<< >>)

\* the state of one call: status "ok" or the exception raised; prob, the
\* accumulated probability as a fraction of the weight unit; lambdas, the
\* mapping passed in, as modified so far; tables, the global tables; used,
\* history: order -> the weight its relative frequency was multiplied with
CallStart(lam, tabs) ==
    [status |-> "ok", prob |-> <<0, 1>>, lambdas |-> lam, tables |-> tabs,
     used |-> [x \in {} |-> 0]]

\* a weight that replaces the lower order's weight
PassDownOverwrite(lam, k) == [lam EXCEPT ![k - 1] = lam[k]]

\* lines 478, 490, 502, 514: lambdas[k-1] += lambdas[k]
PassDown(lam, k) == [lam EXCEPT ![k - 1] = @ + lam[k]]

\* lines 472-480 (k = 5), 484-492, 496-504, 508-516 (k = 2)
OrderStep(s, k, cond, letter) ==
    IF s.status # "ok" THEN s
    ELSE LET tabs  == [s.tables EXCEPT ![k] = TableTouch(@, cond)]
             cnt   == CounterGet(tabs[k][cond], letter)
             total == CounterTotal(tabs[k][cond])
             lam   == s.lambdas
         IN  IF k \notin DOMAIN lam
             THEN [s EXCEPT !.status = "KeyError", !.tables = tabs]
             ELSE IF total # 0
             THEN [s EXCEPT !.tables = tabs,
                            !.prob = RatAdd(@, Rat(cnt * lam[k], total)),
                            !.used = [x \in (DOMAIN @) \cup {k} |->
                                          IF x = k THEN lam[k] ELSE @[x]]]
             ELSE IF (k - 1) \notin DOMAIN lam
             THEN [s EXCEPT !.status = "KeyError", !.tables = tabs]
             ELSE [s EXCEPT !.tables = tabs, !.lambdas = PassDown(lam, k)]

\* lines 519-529
UnigramStep(s, letter) ==
    IF s.status # "ok" THEN s
    ELSE LET cnt   == CounterGet(s.tables[1], letter)
             total == CounterTotal(s.tables[1])
             lam   == s.lambdas
         IN  IF 1 \notin DOMAIN lam
             THEN [s EXCEPT !.status = "KeyError"]
             ELSE IF total # 0
             THEN [s EXCEPT !.prob = RatAdd(@, Rat(cnt * lam[1], total)),
                            !.used = [x \in (DOMAIN @) \cup {1} |->
                                          IF x = 1 THEN lam[1] ELSE @[x]]]
             ELSE IF 0 \notin DOMAIN lam
             THEN [s EXCEPT !.status = "KeyError"]
             \* line 527: len() of a float raises TypeError
             ELSE [s EXCEPT !.lambdas = PassDown(lam, 1), !.status = "TypeError"]

\* line 532: math.log(prob) raises ValueError for prob = 0; for prob > 0 the
\* call returns log(prob), kept here as prob itself
LogStep(s) ==
    IF s.status = "ok" /\ s.prob[1] <= 0 THEN [s EXCEPT !.status = "ValueError"] ELSE s

\* lines 453-532
get_ngram_prob(letter, context, k, lam, tabs) ==
    LET cond == Conditional(context)
        s0 == CallStart(lam, tabs)
        s5 == IF k > 4 THEN OrderStep(s0, 5, cond, letter) ELSE s0
        s4 == IF k > 3 THEN OrderStep(s5, 4, cond, letter) ELSE s5
        s3 == IF k > 2 THEN OrderStep(s4, 3, cond, letter) ELSE s4
        s2 == IF k > 1 THEN OrderStep(s3, 2, cond, letter) ELSE s3
        s1 == IF k > 0 THEN UnigramStep(s2, letter) ELSE s2
    IN  LogStep(s1)

-----------------------------------------------------------------------------
(* ngram_guesser                                                           *)

\* word[j] for a Python index j >= -1 (index -1 is the last element)
PyIndex(word, j) == IF j >= 0 THEN word[j + 1] ELSE word[Len(word) + j + 1]

\* lines 563-566: walk left from index j, having context_len = len
RECURSIVE LeftContext(_, _, _, _, _)
LeftContext(word, j, len, k, context) ==
    IF PyIndex(word, j) # "_" /\ j >= 0 /\ len < k
    THEN LeftContext(word, j - 1, len + 1, k, <<PyIndex(word, j)>> \o context)
    ELSE context

\* lines 560-566: the context of the blank at index i
ContextOf(word, i, k) == LeftContext(word, i - 1, 1, k, << >>)

\* line 569, lambdas.copy(): the mapping get_ngram_prob receives is a new
\* object holding the caller's weights
CopyOfLambdas(lam) == [shared |-> FALSE, value |-> lam]

\* the caller's mapping itself, passed without a copy
SharedLambdas(lam) == [shared |-> TRUE, value |-> lam]

\* line 569, the argument get_ngram_prob receives for lambdas
LambdasArgument(lam) == CopyOfLambdas(lam)

\* log(x) + log(y) = log(x * y): the sum of log-probabilities, kept as the
\* product of the probabilities
LogSum(x, y) == Rat(x[1] * y[1], x[2] * y[2])

\* x < y for fractions
RatLess(x, y) == x[1] * y[2] < y[1] * x[2]

\* the state of one ngram_guesser call: status; lambdas, the caller's mapping;
\* tables, the global tables; letter_probs, letter -> sum of log-probabilities;
\* order, the letters in the order letter_probs got them as keys; moved,
\* history: some get_ngram_prob call changed the mapping it was passed;
\* contexts, history: the context built for each blank, in the order of the
\* blanks
GuessStart(lam, tabs) ==
    [status |-> "ok", lambdas |-> lam, tables |-> tabs,
     letter_probs |-> [x \in {} |-> <<1, 1>>], order |-> << >>, moved |-> FALSE,
     contexts |-> << >>]

\* line 570: letter_probs[letter] += probability, r being the outcome of the
\* get_ngram_prob call made with the argument arg
AddScore(g, letter, arg, r) ==
    LET lam == IF arg.shared THEN r.lambdas ELSE g.lambdas
    IN  IF r.status # "ok"
        THEN [g EXCEPT !.status = r.status, !.tables = r.tables, !.lambdas = lam,
                       !.moved = @ \/ r.lambdas # arg.value]
        ELSE [g EXCEPT !.tables = r.tables, !.lambdas = lam,
                       !.moved = @ \/ r.lambdas # arg.value,
                       !.order = IF letter \in DOMAIN g.letter_probs
                                 THEN @ ELSE Append(@, letter),
                       !.letter_probs =
                           [x \in (DOMAIN @) \cup {letter} |->
                               IF x = letter
                               THEN (IF letter \in DOMAIN @
                                     THEN LogSum(@[letter], r.prob) ELSE r.prob)
                               ELSE @[x]]]

\* line 569: get_ngram_prob(letter, context.copy(), n, arg)
CallWith(g, letter, context, k, arg) ==
    AddScore(g, letter, arg, get_ngram_prob(letter, context, k, arg.value, g.tables))

\* lines 569-570 for one letter
ScoreLetter(g, letter, context, k) ==
    IF g.status # "ok" THEN g
    ELSE CallWith(g, letter, context, k, LambdasArgument(g.lambdas))

\* lines 568-570: the letters of letter_available from index li on
RECURSIVE ScoreLetters(_, _, _, _, _)
ScoreLetters(g, avail, li, context, k) ==
    IF li > Len(avail) THEN g
    ELSE ScoreLetters(ScoreLetter(g, avail[li], context, k), avail, li + 1, context, k)

\* lines 560-566 done for a blank: its context is built, unless an exception
\* ended the call before
NoteContext(g, context) ==
    IF g.status # "ok" THEN g ELSE [g EXCEPT !.contexts = Append(@, context)]

\* lines 559-570 for a blank with the context built for it
ScoreBlank(g, avail, context, k) ==
    ScoreLetters(NoteContext(g, context), avail, 1, context, k)

\* lines 558-570: the positions of the padded mask from index i on
RECURSIVE ScoreBlanks(_, _, _, _, _)
ScoreBlanks(g, word, i, avail, k) ==
    IF i >= Len(word) THEN g
    ELSE ScoreBlanks(IF word[i + 1] = "_"
                     THEN ScoreBlank(g, avail, ContextOf(word, i, k), k)
                     ELSE g,
                     word, i + 1, avail, k)

\* line 543: the letters of the alphabet not guessed, in alphabet order
AvailableList(gd) ==
    SubList(ascii_lowercase,
            {i \in 1..Len(ascii_lowercase) : <<ascii_lowercase[i]>> \notin gd}, 1)

\* line 573: max(letter_probs, key=letter_probs.get): the first key, in
\* insertion order, that no other key beats
RECURSIVE ArgMax(_, _, _, _)
ArgMax(probs, order, i, best) ==
    IF i > Len(order) THEN best
    ELSE ArgMax(probs, order, i + 1,
                IF RatLess(probs[best], probs[order[i]]) THEN order[i] ELSE best)

\* lines 573-574 on the scores g; out is the caller's mapping after the call
GuessResult(g, out) ==
    [status   |-> IF g.status # "ok" THEN g.status
                  \* max() of an empty mapping raises ValueError
                  ELSE IF g.order = << >> THEN "ValueError" ELSE "ok",
     letter   |-> IF g.status = "ok" /\ g.order # << >>
                  THEN ArgMax(g.letter_probs, g.order, 2, g.order[1]) ELSE "",
     lambdas  |-> out, tables |-> g.tables, moved |-> g.moved,
     scores   |-> g.letter_probs, contexts |-> g.contexts]

\* lines 556-574 with the order k and the mapping lam, which is the caller's
\* mapping kw_lambdas or the default
GuessWith(m, gd, k, lam, kw_lambdas, tabs) ==
    LET g == ScoreBlanks(GuessStart(lam, tabs), convert_word(m, 2), 0,
                         AvailableList(gd), k)
    IN  GuessResult(g, IF DOMAIN kw_lambdas # {} THEN g.lambdas ELSE kw_lambdas)

\* lines 542-574: ngram_guesser(mask, guessed, n=kw_n, lambdas=kw_lambdas);
\* a missing or zero n and a missing or empty lambdas are false and replaced
\* by the defaults
ngram_guesser(m, gd, kw_n, kw_lambdas, tabs) ==
    GuessWith(m, gd, IF kw_n # 0 THEN kw_n ELSE 1,
              IF DOMAIN kw_lambdas # {} THEN kw_lambdas ELSE DefaultLambdas,
              kw_lambdas, tabs)

-----------------------------------------------------------------------------
(* hangman                                                                 *)

\* no language model in use
LMOff ==
    /\ train_set = << >>
    /\ ngram_counts = TrainedTables(<< >>)
    /\ n = 1
    /\ lambdas = DefaultLambdas
    /\ configured = DefaultLambdas
    /\ redistributed = FALSE
    /\ lm_pc = "off"
    /\ prob_call = << >>
    /\ prob_result = << >>

\* no evaluation running
EvalOff ==
    /\ dataset = << >>
    /\ eval_pc = "off"
    /\ eval_i = 0
    /\ eval_mistakes = 0
    /\ avg_mistakes = << >>

\* no direct guesser call
GuessOff ==
    /\ call_mask = << >>
    /\ call_guessed = {}
    /\ ngram_choice = << >>
    /\ unigram_choice = << >>

\* no game running
GameOff ==
    /\ pc = "idle"
    /\ guesser = "none"
    /\ secret_word = << >>
    /\ max_mistakes = 0
    /\ mask = << >>
    /\ guessed = {}
    /\ mistakes = 0
    /\ guess = << >>
    /\ ret = << >>
    /\ outcome = "InProgress"
    /\ turns = 0
    /\ wasted_turns = 0
    /\ off_contract = FALSE

GameInit ==
    /\ LMOff
    /\ EvalOff
    /\ GuessOff
    /\ pc = "start"
    /\ guesser \in {"human", "trivial_guesser"}
    /\ secret_word \in SecretWords
    /\ max_mistakes \in Caps
    /\ mask = << >>
    /\ guessed = {}
    /\ mistakes = 0
    /\ guess = << >>
    /\ ret = << >>
    /\ outcome = "InProgress"
    /\ turns = 0
    /\ wasted_turns = 0
    /\ off_contract = FALSE

\* lines 54-60: lower-case the word, all-blank mask, empty guessed set
HangmanBegin ==
    /\ pc = "start"
    /\ secret_word' = Lower(secret_word)
    /\ mask' = [i \in 1..Len(secret_word) |-> "_"]
    /\ guessed' = {}
    /\ mistakes' = 0
    /\ pc' = "loop"
    /\ UNCHANGED <<guesser, max_mistakes, guess, ret, outcome, turns,
                   wasted_turns, off_contract>>
    /\ UNCHANGED <<lmVars, evalVars>>
    /\ UNCHANGED guessVars

\* line 61: the iterations one call of hangman can make.  A turn either adds
\* a string to guessed or counts a mistake, so a game that is still in its
\* loop after this many turns never leaves it; the history counter stops
\* there, and such a game shows as a state that is in progress for ever
TurnLimit == Cardinality(Guesses) + (CHOOSE c \in Caps : \A d \in Caps : d <= c)

\* lines 64-88 for a guess g: one iteration of the while loop
TurnWith(g) ==
    /\ turns < TurnLimit
    /\ guess' = g
    /\ turns' = turns + 1
    /\ off_contract' = (off_contract \/ g \in guessed \/ g \notin OneLetterGuesses)
    /\ wasted_turns' = IF g \in guessed \/ ~IsSubstring(g, secret_word)
                       THEN wasted_turns + 1 ELSE wasted_turns
    /\ IF g \in guessed
       THEN /\ mistakes' = CountMistake(mistakes)
            /\ UNCHANGED <<guessed, mask>>
       ELSE /\ guessed' = guessed \cup {g}
            /\ IF IsSubstring(g, secret_word)
               THEN /\ mask' = Reveal(mask, secret_word, g)
                    /\ UNCHANGED mistakes
               ELSE /\ mistakes' = CountMistake(mistakes)
                    /\ UNCHANGED mask
    /\ IF NoBlank(mask')
       THEN /\ pc' = "returned"
            /\ ret' = <<mistakes'>>
            /\ outcome' = "Won"
       ELSE /\ pc' = "loop"
            /\ UNCHANGED <<ret, outcome>>
    /\ UNCHANGED <<guesser, secret_word, max_mistakes>>

\* line 61 true, guesser = human (lines 94-102): any lower-case input string
HumanTurn ==
    /\ pc = "loop"
    /\ LoopGuard(mistakes, max_mistakes)
    /\ guesser = "human"
    /\ \E g \in Guesses : TurnWith(g)
    /\ UNCHANGED <<lmVars, evalVars>>
    /\ UNCHANGED guessVars

\* line 61 true, guesser = trivial_guesser (lines 177-179): a random letter
\* among those not guessed
TrivialTurn ==
    /\ pc = "loop"
    /\ LoopGuard(mistakes, max_mistakes)
    /\ guesser = "trivial_guesser"
    /\ letter_available(guessed) # {}
    /\ \E l \in letter_available(guessed) : TurnWith(<<l>>)
    /\ UNCHANGED <<lmVars, evalVars>>
    /\ UNCHANGED guessVars

\* np.random.choice of an empty list raises ValueError
TrivialRaise ==
    /\ pc = "loop"
    /\ LoopGuard(mistakes, max_mistakes)
    /\ guesser = "trivial_guesser"
    /\ letter_available(guessed) = {}
    /\ pc' = "raised"
    /\ UNCHANGED <<guesser, secret_word, max_mistakes, mask, guessed, mistakes,
                   guess, ret, outcome, turns, wasted_turns, off_contract>>
    /\ UNCHANGED <<lmVars, evalVars>>
    /\ UNCHANGED guessVars

\* line 64 and on, r being what ngram_guesser did
NgramTurnWith(r) ==
    /\ lambdas' = r.lambdas
    /\ ngram_counts' = r.tables
    /\ redistributed' = (redistributed \/ r.moved)
    /\ IF r.status = "ok"
       THEN TurnWith(<<r.letter>>)
       ELSE /\ pc' = "raised"
            /\ UNCHANGED <<guesser, secret_word, max_mistakes, mask, guessed,
                           mistakes, guess, ret, outcome, turns, wasted_turns,
                           off_contract>>

\* line 61 true, guesser = ngram_guesser (lines 542-574) with the keyword
\* arguments n and lambdas
NgramTurn ==
    /\ pc = "loop"
    /\ LoopGuard(mistakes, max_mistakes)
    /\ guesser = "ngram_guesser"
    /\ NgramTurnWith(ngram_guesser(mask, guessed, n, lambdas, ngram_counts))
    /\ UNCHANGED <<train_set, n, configured, lm_pc, prob_call, prob_result>>
    /\ UNCHANGED evalVars
    /\ UNCHANGED guessVars

\* line 61 false, lines 90-92: out of guesses
HangmanGiveUp ==
    /\ pc = "loop"
    /\ ~LoopGuard(mistakes, max_mistakes)
    /\ pc' = "returned"
    /\ ret' = <<mistakes>>
    /\ outcome' = "Lost"
    /\ UNCHANGED <<guesser, secret_word, max_mistakes, mask, guessed, mistakes,
                   guess, turns, wasted_turns, off_contract>>
    /\ UNCHANGED <<lmVars, evalVars>>
    /\ UNCHANGED guessVars

GameNext ==
    \/ HangmanBegin
    \/ HumanTurn
    \/ TrivialTurn
    \/ TrivialRaise
    \/ HangmanGiveUp

\* the loop of hangman is synchronous code: it keeps running until it returns
GameSpec == GameInit /\ [][GameNext]_vars /\ WF_vars(GameNext)

-----------------------------------------------------------------------------
(* direct calls of get_ngram_prob                                          *)

\* the contexts of a call of order k: up to k-1 symbols
Contexts(k) == SeqUpTo(ContextSymbols, k - 1)

ProbInit ==
    /\ GameOff
    /\ EvalOff
    /\ GuessOff
    /\ train_set \in TrainSets
    /\ ngram_counts = TrainedTables(train_set)
    /\ n \in 1..MaxOrder
    /\ lambdas \in LambdaConfigs(n) \cup {DefaultLambdas}
    /\ configured = lambdas
    /\ redistributed = FALSE
    /\ lm_pc = "idle"
    /\ prob_call = << >>
    /\ prob_result = << >>

\* get_ngram_prob(letter, context, n, lambdas) on the trained tables; the
\* mapping passed is the caller's own
ProbCall ==
    /\ lm_pc = "idle"
    /\ \E letter \in Letters, context \in Contexts(n) :
         LET r == get_ngram_prob(letter, context, n, lambdas, ngram_counts)
         IN  /\ prob_call' = <<[letter |-> letter, context |-> context]>>
             /\ prob_result' = <<[status |-> r.status, prob |-> r.prob, used |-> r.used]>>
             /\ lambdas' = r.lambdas
             /\ ngram_counts' = r.tables
    /\ lm_pc' = "done"
    /\ UNCHANGED <<train_set, n, configured, redistributed>>
    /\ UNCHANGED <<gameVars, evalVars>>
    /\ UNCHANGED guessVars

ProbNext == ProbCall

ProbSpec == ProbInit /\ [][ProbNext]_vars

-----------------------------------------------------------------------------
(* evaluate_model with ngram_guesser                                       *)

\* line 183: max_mistakes=26, the size of the alphabet
EvalMaxMistakes == AlphabetSize

EvalInit ==
    /\ GameOff
    /\ GuessOff
    /\ train_set \in TrainSets
    /\ ngram_counts = TrainedTables(train_set)
    /\ n \in 0..MaxOrder
    /\ lambdas \in IF n = 0 THEN {[x \in {} |-> 0]} ELSE LambdaConfigs(n)
    /\ configured = lambdas
    /\ redistributed = FALSE
    /\ lm_pc = "off"
    /\ prob_call = << >>
    /\ prob_result = << >>
    /\ dataset \in Datasets
    /\ eval_pc = "loop"
    /\ eval_i = 0
    /\ eval_mistakes = 0
    /\ avg_mistakes = << >>

\* lines 185-186: the next word of the dataset, hangman is called
EvalCallHangman ==
    /\ eval_pc = "loop"
    /\ pc = "idle"
    /\ eval_i < Len(dataset)
    /\ pc' = "start"
    /\ guesser' = "ngram_guesser"
    /\ secret_word' = dataset[eval_i + 1]
    /\ max_mistakes' = EvalMaxMistakes
    /\ mask' = << >>
    /\ guessed' = {}
    /\ mistakes' = 0
    /\ guess' = << >>
    /\ ret' = << >>
    /\ outcome' = "InProgress"
    /\ turns' = 0
    /\ wasted_turns' = 0
    /\ off_contract' = FALSE
    /\ UNCHANGED <<lmVars, evalVars>>
    /\ UNCHANGED guessVars

\* line 186: mistakes += the value hangman returned
EvalCollect ==
    /\ eval_pc = "loop"
    /\ pc = "returned"
    /\ eval_mistakes' = eval_mistakes + ret[1]
    /\ eval_i' = eval_i + 1
    /\ pc' = "idle"
    /\ UNCHANGED <<guesser, secret_word, max_mistakes, mask, guessed, mistakes,
                   guess, ret, outcome, turns, wasted_turns, off_contract>>
    /\ UNCHANGED <<lmVars, dataset, eval_pc, avg_mistakes>>
    /\ UNCHANGED guessVars

\* an exception of the guesser ends hangman and evaluate_model
EvalRaise ==
    /\ eval_pc = "loop"
    /\ pc = "raised"
    /\ eval_pc' = "raised"
    /\ UNCHANGED <<gameVars, lmVars, dataset, eval_i, eval_mistakes, avg_mistakes>>
    /\ UNCHANGED guessVars

\* lines 188-189: the average; an empty dataset divides by zero
EvalFinish ==
    /\ eval_pc = "loop"
    /\ pc = "idle"
    /\ eval_i = Len(dataset)
    /\ IF Len(dataset) = 0
       THEN /\ eval_pc' = "raised"
            /\ UNCHANGED avg_mistakes
       ELSE /\ eval_pc' = "done"
            /\ avg_mistakes' = <<Rat(eval_mistakes, Len(dataset))>>
    /\ UNCHANGED <<gameVars, lmVars, dataset, eval_i, eval_mistakes>>
    /\ UNCHANGED guessVars

EvalNext ==
    \/ EvalCallHangman
    \/ HangmanBegin
    \/ NgramTurn
    \/ HangmanGiveUp
    \/ EvalCollect
    \/ EvalRaise
    \/ EvalFinish

EvalSpec == EvalInit /\ [][EvalNext]_vars

-----------------------------------------------------------------------------
(* unigram_guesser, and direct calls of the guessers                       *)

\* line 275: (unigram_counts[letter]+1)/(total_counts+vocab_size)
UnigramProb(cnt, total, vocab) == Rat(cnt + 1, total + vocab)

\* every letter of the alphabet, guessed or not
AllLetters(gd) == ascii_lowercase

\* line 269: the letters unigram_guesser scores
UnigramCandidates(gd) == AvailableList(gd)

\* lines 268-279 on the Counter counts (the global unigram_counts)
unigram_guesser(m, gd, counts) ==
    LET avail == UnigramCandidates(gd)
        total == CounterTotal(counts)
        vocab == Cardinality(DOMAIN counts)
        probs == [l \in {avail[i] : i \in 1..Len(avail)} |->
                     UnigramProb(CounterGet(counts, l), total, vocab)]
    IN  IF avail = << >>
        \* max() of an empty mapping raises ValueError
        THEN [status |-> "ValueError", letter |-> ""]
        ELSE IF total + vocab = 0
        \* a float division by zero raises ZeroDivisionError
        THEN [status |-> "ZeroDivisionError", letter |-> ""]
        ELSE [status |-> "ok", letter |-> ArgMax(probs, avail, 2, avail[1])]

\* number of ngram_guesser calls made on the same arguments
MaxCalls == 2

\* the masks of the direct calls: blanks at the start, after a blank, after
\* one and after two letters; and a mask without a blank
GuessMasks ==
    { <<"_">>, <<"_", "_">>, <<"c", "_">>, <<"_", "a">>, <<"c", "a", "_">>,
      <<"c", "_", "_">>, <<"c", "a", "t">> }

GuessInit ==
    /\ GameOff
    /\ EvalOff
    /\ train_set \in TrainSets
    /\ ngram_counts = TrainedTables(train_set)
    /\ n \in 1..MaxOrder
    /\ lambdas \in LambdaConfigs(n) \cup {DefaultLambdas}
    /\ configured = lambdas
    /\ redistributed = FALSE
    /\ lm_pc = "off"
    /\ prob_call = << >>
    /\ prob_result = << >>
    /\ call_mask \in GuessMasks
    /\ call_guessed \in SUBSET OneLetterGuesses
    /\ ngram_choice = << >>
    /\ unigram_choice = << >>

\* r being what ngram_guesser did
NgramGuessWith(r) ==
    /\ ngram_choice' = Append(ngram_choice,
                              [status |-> r.status, letter |-> r.letter,
                               scores |-> r.scores, contexts |-> r.contexts])
    /\ lambdas' = r.lambdas
    /\ ngram_counts' = r.tables
    /\ redistributed' = (redistributed \/ r.moved)

\* ngram_guesser(call_mask, call_guessed, n=n, lambdas=lambdas), lines 542-574
NgramGuessCall ==
    /\ Len(ngram_choice) < MaxCalls
    /\ NgramGuessWith(ngram_guesser(call_mask, call_guessed, n, lambdas, ngram_counts))
    /\ UNCHANGED <<train_set, n, configured, lm_pc, prob_call, prob_result>>
    /\ UNCHANGED <<call_mask, call_guessed, unigram_choice>>
    /\ UNCHANGED <<gameVars, evalVars>>

\* unigram_guesser(call_mask, call_guessed), lines 268-279
UnigramGuessCall ==
    /\ unigram_choice = << >>
    /\ unigram_choice' = <<unigram_guesser(call_mask, call_guessed, ngram_counts[1])>>
    /\ UNCHANGED <<call_mask, call_guessed, ngram_choice>>
    /\ UNCHANGED <<gameVars, lmVars, evalVars>>

GuessNext ==
    \/ NgramGuessCall
    \/ UnigramGuessCall

GuessSpec == GuessInit /\ [][GuessNext]_vars

-----------------------------------------------------------------------------
(* training: the cells that build the tables                               *)

\* the words of the training lists: the empty word, a repeated letter, an
\* upper-case letter
TrainVocabulary ==
    { << >>, <<"a">>, <<"a", "a">>, <<"c", "a", "t">>, <<"C", "a">> }

TrainLists == SeqUpTo(TrainVocabulary, MaxTrain)

\* nothing trained yet: ngram_counts holds the tables built so far
TrainInit ==
    /\ GameOff
    /\ EvalOff
    /\ GuessOff
    /\ train_set \in TrainLists
    /\ ngram_counts = << >>
    /\ n = 1
    /\ lambdas = DefaultLambdas
    /\ configured = DefaultLambdas
    /\ redistributed = FALSE
    /\ lm_pc = "training"
    /\ prob_call = << >>
    /\ prob_result = << >>

\* line 240: unigram_counts=get_unigram_counts(train_set)
TrainUnigram ==
    /\ lm_pc = "training"
    /\ Len(ngram_counts) = 0
    /\ ngram_counts' = <<get_unigram_counts(train_set)>>
    /\ UNCHANGED <<train_set, n, lambdas, configured, redistributed, lm_pc,
                   prob_call, prob_result>>
    /\ UNCHANGED <<gameVars, evalVars, guessVars>>

\* lines 433-436: the next of get_ngram_counts(train_set,2) .. (train_set,5);
\* lines 439-444 after the last
TrainNgram ==
    /\ lm_pc = "training"
    /\ Len(ngram_counts) \in 1..(MaxOrder - 1)
    /\ ngram_counts' = Append(ngram_counts,
                              get_ngram_counts(train_set, Len(ngram_counts) + 1))
    /\ lm_pc' = IF Len(ngram_counts) + 1 = MaxOrder THEN "idle" ELSE "training"
    /\ UNCHANGED <<train_set, n, lambdas, configured, redistributed,
                   prob_call, prob_result>>
    /\ UNCHANGED <<gameVars, evalVars, guessVars>>

TrainNext ==
    \/ TrainUnigram
    \/ TrainNgram

TrainSpec == TrainInit /\ [][TrainNext]_vars

-----------------------------------------------------------------------------
(* Properties of hangman, under GameSpec                                   *)

\* the word consists of letters of the alphabet
IsLowercaseWord(w) == \A i \in 1..Len(w) : w[i] \in Letters

\* the character c occurs in the word w
Occurs(c, w) == \E i \in 1..Len(w) : w[i] = c

\* C1: for max_mistakes >= 1 the value hangman returns is an integer m with
\* 0 <= m <= max_mistakes
C1_ReturnInRange ==
    (pc = "returned" /\ max_mistakes >= 1) => (ret[1] >= 0 /\ ret[1] <= max_mistakes)

\* a game lost with the cap of at least 2 mistakes reached
C1_Witness ==
    pc = "returned" /\ outcome = "Lost" /\ max_mistakes >= 2 /\ ret[1] = max_mistakes

\* C2: every game terminates: whatever the strategy returns, hangman ends
\* Won or Lost (or the strategy itself raises) after finitely many turns
C2_Terminates == <>(outcome \in {"Won", "Lost"} \/ pc = "raised")

\* a game that ended although a guess was repeated and a guess of several
\* characters was counted as good
C2_Witness ==
    /\ pc = "returned"
    /\ turns > Cardinality(guessed)
    /\ <<"c", "a">> \in guessed
    /\ IsSubstring(<<"c", "a">>, secret_word)

\* C6: with max_mistakes >= alphabet size and a word of lower-case letters, a
\* strategy that never repeats a guess and only guesses letters never loses
\* and eventually wins
C6_BruteForceWins ==
    /\ []((max_mistakes >= AlphabetSize /\ IsLowercaseWord(secret_word) /\ ~off_contract)
            => outcome # "Lost")
    /\ ((max_mistakes >= AlphabetSize /\ IsLowercaseWord(secret_word))
            ~> (off_contract \/ outcome = "Won"))

\* a game won by trivial_guesser with the last letter of the alphabet left,
\* after every other letter was a mistake
C6_Witness ==
    /\ outcome = "Won"
    /\ guesser = "trivial_guesser"
    /\ ~off_contract
    /\ max_mistakes = AlphabetSize
    /\ Len(secret_word) > 0
    /\ mistakes = AlphabetSize - 1

\* C7: a turn with a one-character guess g is one of: g already guessed, then
\* mistakes + 1, mask and guessed unchanged; g new and in the word, then g
\* joins guessed, exactly the positions holding g are revealed, mistakes
\* unchanged; g new and not in the word, then g joins guessed, mistakes + 1,
\* mask unchanged
C7_TurnEffect ==
    [][(pc = "loop" /\ turns' = turns + 1 /\ Len(guess') = 1) =>
        LET g == guess' IN
        \/ /\ g \in guessed
           /\ mistakes' = mistakes + 1
           /\ mask' = mask
           /\ guessed' = guessed
        \/ /\ g \notin guessed
           /\ Occurs(g[1], secret_word)
           /\ guessed' = guessed \cup {g}
           /\ mistakes' = mistakes
           /\ Len(mask') = Len(mask)
           /\ \A i \in 1..Len(mask) :
                 mask'[i] = IF secret_word[i] = g[1] THEN g[1] ELSE mask[i]
        \/ /\ g \notin guessed
           /\ ~Occurs(g[1], secret_word)
           /\ guessed' = guessed \cup {g}
           /\ mistakes' = mistakes + 1
           /\ mask' = mask]_vars

\* the state after a guess that revealed a letter at two positions at once,
\* with a blank left
C7_Witness ==
    /\ pc = "loop"
    /\ Len(guess) = 1
    /\ Cardinality({i \in 1..Len(mask) : mask[i] = guess[1]}) >= 2
    /\ ~NoBlank(mask)

\* C8: the value returned is the number of turns whose guess was already
\* guessed or does not occur in the word; for max_mistakes >= 1, guessing only
\* new letters of the word wins with 0 ("cat" with cap 8 too), and always
\* guessing one letter that is not in a non-empty word loses with exactly
\* max_mistakes
C8_ReturnCountsWastedTurns ==
    /\ pc = "returned" => ret[1] = wasted_turns
    /\ (pc = "returned" /\ max_mistakes >= 1 /\ wasted_turns = 0)
       => (outcome = "Won" /\ ret = <<0>>)
    /\ (pc = "returned" /\ max_mistakes >= 1 /\ Len(secret_word) > 0
          /\ \E l \in Letters : guessed = {<<l>>} /\ ~Occurs(l, secret_word))
       => (outcome = "Lost" /\ ret = <<max_mistakes>>)

\* "cat" with the default cap 8, lost after a wrong letter, a repeat of it
\* and six more wasted turns, "c" and "a" revealed
C8_Witness ==
    /\ pc = "returned"
    /\ secret_word = <<"c", "a", "t">>
    /\ max_mistakes = DefaultMaxMistakes
    /\ ret = <<DefaultMaxMistakes>>
    /\ guessed = {<<"c">>, <<"a">>, <<"z">>}

\* C9: a guess that is not one letter of the alphabet raises: it is not
\* added to guessed, and no game goes on or returns after it
C9_InvalidGuessRejected ==
    (turns > 0 /\ guess \notin OneLetterGuesses) => (pc = "raised" /\ guess \notin guessed)

\* the word is neither empty nor has a non-alphabetic character
IsAlphabeticWord(w) == Len(w) > 0 /\ \A i \in 1..Len(w) : LowerChar(w[i]) \in Letters

\* C10: an empty word or a word with a non-alphabetic character is rejected
\* before the game starts: no turn is played and nothing is returned
C10_MalformedWordRejected ==
    ~IsAlphabeticWord(secret_word) => (turns = 0 /\ ret = << >>)

-----------------------------------------------------------------------------
(* Properties of get_ngram_prob, under ProbSpec                            *)

\* a call was made with weights for every order 0..n
WellFormedCall ==
    lm_pc = "done" /\ \A o \in 0..n : o \in DOMAIN configured

\* C3: with a positive zerogram weight and a non-empty vocabulary the
\* probability handed to math.log is positive, so the call returns
C3_ProbabilityPositive ==
    (WellFormedCall /\ configured[0] > 0 /\ DOMAIN ngram_counts[1] # {})
        => (prob_result[1].status = "ok" /\ prob_result[1].prob[1] > 0)

\* C5: the weights the scored orders were multiplied with add up to the sum
\* of the configured weights of the orders 0..n
C5_WeightConserved ==
    (WellFormedCall /\ prob_result[1].status \in {"ok", "ValueError"})
        => SumOver(prob_result[1].used, DOMAIN prob_result[1].used)
             = SumOver(configured, 0..n)

-----------------------------------------------------------------------------
(* Properties of ngram_guesser and evaluate_model, under EvalSpec          *)

\* C4: the caller's lambdas mapping holds the configured weights after every
\* ngram_guesser call and after the whole evaluate_model run
C4_CallerLambdasUnchanged == lambdas = configured

\* an evaluation of two words that ran to its end, in which get_ngram_prob
\* moved weight between orders
C4_Witness ==
    eval_pc = "done" /\ Len(dataset) >= 2 /\ redistributed /\ n >= 2

-----------------------------------------------------------------------------
(* Properties of the guessers, under GuessSpec                             *)

\* the mask has a blank
HasBlank(m) == \E i \in 1..Len(m) : m[i] = "_"

\* the weights cover the orders 0..n, or are the default {1: 1} with n = 1
WellFormedGuess ==
    \/ \A o \in 0..n : o \in DOMAIN configured
    \/ n = 1 /\ configured = DefaultLambdas

\* the place of a letter in the alphabet
AlphaIndex(l) == CHOOSE i \in 1..Len(ascii_lowercase) : ascii_lowercase[i] = l

\* the product over the blanks, whose contexts are ctxs from index b on, of
\* the probability get_ngram_prob gives the letter with the configured
\* weights: the sum of the log-probabilities
RECURSIVE TotalOverBlanks(_, _, _)
TotalOverBlanks(l, ctxs, b) ==
    IF b > Len(ctxs) THEN <<1, 1>>
    ELSE LogSum(get_ngram_prob(l, ctxs[b], n, configured, ngram_counts).prob,
                TotalOverBlanks(l, ctxs, b + 1))

\* the outcome r is a letter not guessed whose total is maximal among the
\* letters not guessed, the first of the alphabet among those of that total
IsBestLetter(r) ==
    /\ r.letter \in letter_available(call_guessed)
    /\ \A l \in letter_available(call_guessed) :
         /\ r.scores[l] = TotalOverBlanks(l, r.contexts, 1)
         /\ ~RatLess(r.scores[r.letter], r.scores[l])
         /\ r.scores[l] = r.scores[r.letter] => AlphaIndex(r.letter) <= AlphaIndex(l)

\* C11: for a mask with a blank and a guessed set that leaves a letter, with
\* tables trained on at least one word, every ngram_guesser call returns a letter that is not guessed, whose total
\* log-probability over the blanks is maximal, the lexicographically smallest
\* among those of maximal total, and the same letter at every call
C11_GuessIsBestLetter ==
    (WellFormedGuess /\ train_set # << >> /\ HasBlank(call_mask)
       /\ letter_available(call_guessed) # {})
        => \A c \in 1..Len(ngram_choice) :
              /\ ngram_choice[c].status = "ok"
              /\ IsBestLetter(ngram_choice[c])
              /\ ngram_choice[c].letter = ngram_choice[1].letter

\* what holds of the calls that return: the letter returned is the best
\* letter, and a repeated call returns it again
ReturnedLetterIsBest ==
    (WellFormedGuess /\ HasBlank(call_mask))
        => \A c \in 1..Len(ngram_choice) :
              /\ ngram_choice[c].status = ngram_choice[1].status
              /\ ngram_choice[c].status = "ok"
                   => /\ IsBestLetter(ngram_choice[c])
                      /\ ngram_choice[c].letter = ngram_choice[1].letter

\* two calls that returned, after a tie of the totals of two letters
ReturnedAfterTie ==
    /\ WellFormedGuess
    /\ Len(ngram_choice) = 2
    /\ ngram_choice[2].status = "ok"
    /\ \E l \in letter_available(call_guessed) \ {ngram_choice[2].letter} :
          ngram_choice[2].scores[l] = ngram_choice[2].scores[ngram_choice[2].letter]

\* the letters not guessed all have training counts that are not zero and
\* differ from one another
DistinctNonZeroCounts ==
    \A l \in letter_available(call_guessed) :
        /\ CounterGet(ngram_counts[1], l) > 0
        /\ \A k \in letter_available(call_guessed) \ {l} :
              CounterGet(ngram_counts[1], k) # CounterGet(ngram_counts[1], l)

\* C12: with n = 1 and the weights {1: 1}, for a mask with a blank and letters
\* left whose training counts are non-zero and pairwise different,
\* ngram_guesser and unigram_guesser both return, and return the same letter
C12_UnigramReduction ==
    (/\ n = 1
     /\ configured = DefaultLambdas
     /\ HasBlank(call_mask)
     /\ letter_available(call_guessed) # {}
     /\ DistinctNonZeroCounts
     /\ unigram_choice # << >>)
        => /\ unigram_choice[1].status = "ok"
           /\ \A c \in 1..Len(ngram_choice) :
                 /\ ngram_choice[c].status = "ok"
                 /\ ngram_choice[c].letter = unigram_choice[1].letter

\* both guessers returned the same letter for a mask of two blanks, with
\* three letters of different counts left
C12_Witness ==
    /\ n = 1
    /\ configured = DefaultLambdas
    /\ Cardinality({i \in 1..Len(call_mask) : call_mask[i] = "_"}) = 2
    /\ Cardinality(letter_available(call_guessed)) = 3
    /\ DistinctNonZeroCounts
    /\ unigram_choice # << >>
    /\ ngram_choice # << >>
    /\ unigram_choice[1].status = "ok"
    /\ ngram_choice[1].letter = unigram_choice[1].letter

-----------------------------------------------------------------------------
(* Properties of the orders of get_ngram_prob, under ProbSpec              *)

\* the Counter table k holds for the key: empty when the key is not in the
\* table, as it is when a lookup has inserted the key
TableCounter(k, key) ==
    IF key \in DOMAIN ngram_counts[k] THEN ngram_counts[k][key] ELSE EmptyCounter

\* the total count, in the order-k table, of the context the call looks up
LookupTotal(k) ==
    IF k = 1 THEN CounterTotal(ngram_counts[1])
    ELSE CounterTotal(TableCounter(k, Conditional(prob_call[1].context)))

\* the count of the letter after that context
LookupCount(k) ==
    IF k = 1 THEN CounterGet(ngram_counts[1], prob_call[1].letter)
    ELSE CounterGet(TableCounter(k, Conditional(prob_call[1].context)),
                    prob_call[1].letter)

\* the weight of order k when it is scored: its configured weight and the
\* weight of the order above, if that order's context total is zero
RECURSIVE CascadedWeight(_)
CascadedWeight(k) ==
    configured[k]
      + (IF k < n /\ LookupTotal(k + 1) = 0 THEN CascadedWeight(k + 1) ELSE 0)

\* the sum of weight * count / total over the orders k..n of non-zero total
RECURSIVE CascadedProb(_)
CascadedProb(k) ==
    IF k > n THEN <<0, 1>>
    ELSE RatAdd(IF LookupTotal(k) # 0
                THEN Rat(CascadedWeight(k) * LookupCount(k), LookupTotal(k))
                ELSE <<0, 1>>,
                CascadedProb(k + 1))

\* C13: an order k in 2..n whose context total is zero adds nothing and hands
\* its whole weight, inherited weight included, to order k-1 before that is
\* scored; an order whose total is not zero adds weight * count / total and
\* hands nothing down
C13_CascadeStep ==
    (WellFormedCall /\ prob_result[1].status \in {"ok", "ValueError"})
        => /\ \A k \in 1..n : lambdas[k] = CascadedWeight(k)
           /\ \A k \in 2..n :
                 IF LookupTotal(k) = 0
                 THEN k \notin DOMAIN prob_result[1].used
                 ELSE /\ k \in DOMAIN prob_result[1].used
                      /\ prob_result[1].used[k] = CascadedWeight(k)
           /\ prob_result[1].prob = CascadedProb(1)

\* a call of order 4 or 5 with one symbol of context: the orders above 2 are
\* unseen, and the bigram is scored with their weights added to its own
C13_Witness ==
    /\ WellFormedCall
    /\ prob_result[1].status = "ok"
    /\ n >= 4
    /\ \A k \in 3..n : configured[k] > 0 /\ LookupTotal(k) = 0
    /\ LookupTotal(2) # 0
    /\ LookupCount(2) > 0
    /\ prob_result[1].used[2] = SumOver(configured, 2..n)

\* the key get_ngram_counts files, in the order-k table, the windows under
\* that start with the most recent k-1 symbols of the call's context
OwnKey(k) ==
    LET context == prob_call[1].context
    IN  WindowKey(SubSeq(context, Len(context) - k + 2, Len(context)), k)

\* C14: in a call with m >= 1 symbols of context, every order k in
\* 2..min(n, m+1) whose most recent k-1 context symbols occurred in training
\* (their key has a non-zero total in the order-k table) is scored, with
\* weight * count / total of that key, and not treated as unseen
C14_OrderUsesOwnContext ==
    (WellFormedCall /\ prob_result[1].status \in {"ok", "ValueError"})
        => \A k \in 2..n :
              (/\ k <= Len(prob_call[1].context) + 1
               /\ CounterTotal(TableCounter(k, OwnKey(k))) # 0)
                  => /\ k \in DOMAIN prob_result[1].used
                     /\ LookupTotal(k) = CounterTotal(TableCounter(k, OwnKey(k)))

\* C15: the tables are read-only once trained: after any get_ngram_prob call
\* every table of the orders 1..5 has the context keys and the counts
\* get_ngram_counts gave it
C15_TablesReadOnly == ngram_counts = TrainedTables(train_set)

-----------------------------------------------------------------------------
(* Properties of the contexts of ngram_guesser, under GuessSpec            *)

\* the indexes of the blanks of the mask, in order
BlankIndexes(m) == SubList([i \in 1..Len(m) |-> i], {i \in 1..Len(m) : m[i] = "_"}, 1)

\* the run of non-blank symbols of word that ends just before index p, cut
\* to its last len symbols
RECURSIVE RunLeft(_, _, _)
RunLeft(word, p, len) ==
    IF p = 1 \/ len = 0 \/ word[p - 1] = "_" THEN << >>
    ELSE Append(RunLeft(word, p - 1, len - 1), word[p - 1])

\* the context of the blank at index i of the mask for the order n: read off
\* the mask padded as get_ngram_counts pads a word for the order n
PaddedContext(i) == RunLeft(convert_word(call_mask, n), i + n - 1, n - 1)

\* C16: the context ngram_guesser passes for a blank is the run of non-blank
\* symbols just left of it in the mask padded with the n-1 start sentinels
\* of order n, cut to its most recent n-1 symbols
C16_ContextOfBlank ==
    (WellFormedGuess /\ train_set # << >>) =>
    \A c \in 1..Len(ngram_choice) :
        \A b \in 1..Len(ngram_choice[c].contexts) :
            ngram_choice[c].contexts[b] = PaddedContext(BlankIndexes(call_mask)[b])

-----------------------------------------------------------------------------
(* Properties of get_ngram_counts, under TrainSpec                         *)

\* the symbols of a sequence differ from one another and are no letters
DistinctSentinels(q) ==
    /\ \A i, j \in 1..Len(q) : i # j => q[i] # q[j]
    /\ \A i \in 1..Len(q) : q[i] \notin Letters /\ q[i] # "_"

\* the windows of length k of the padded training words: <<w, i>> is the
\* window of word w that starts at index i
Windows(k) ==
    {<<w, i>> \in (1..Len(train_set)) \X (1..(MaxLen + 2 * MaxOrder)) :
        i + k - 1 <= Len(convert_word(train_set[w], k))}

\* the first k-1 symbols, and the last symbol, of the window x
WindowContext(x, k) == SubSeq(convert_word(train_set[x[1]], k), x[2], x[2] + k - 2)

WindowLast(x, k) == convert_word(train_set[x[1]], k)[x[2] + k - 1]

\* number of occurrences stored in a table
RECURSIVE TableTotal(_, _)
TableTotal(tab, keys) ==
    IF keys = {} THEN 0
    ELSE LET key == CHOOSE x \in keys : TRUE
         IN  CounterTotal(tab[key]) + TableTotal(tab, keys \ {key})

\* C17: for every order k in 2..5 trained, every word is padded with k-1
\* distinct start sentinels and k-1 distinct end sentinels; the count stored
\* for (context, symbol) is the number of windows of length k with that
\* context and that last symbol, every window is counted, and a word of
\* length L adds L + k - 1 occurrences
C17_WindowCounts ==
    \A k \in 2..Len(ngram_counts) :
        /\ \A w \in 1..Len(train_set) :
              LET word == train_set[w]
                  p    == convert_word(word, k)
              IN  /\ Len(p) = Len(word) + 2 * (k - 1)
                  /\ SubSeq(p, k, k - 1 + Len(word)) = Lower(word)
                  /\ DistinctSentinels(SubSeq(p, 1, k - 1))
                  /\ DistinctSentinels(SubSeq(p, k + Len(word), Len(p)))
                  /\ Cardinality({x \in Windows(k) : x[1] = w}) = Len(word) + k - 1
        /\ \A key \in DOMAIN ngram_counts[k] :
              \A sym \in DOMAIN ngram_counts[k][key] :
                  /\ ngram_counts[k][key][sym] >= 1
                  /\ ngram_counts[k][key][sym]
                       = Cardinality({x \in Windows(k) :
                                         /\ WindowContext(x, k) = key.syms
                                         /\ WindowLast(x, k) = sym})
        /\ \A x \in Windows(k) :
              \E key \in DOMAIN ngram_counts[k] :
                  /\ key.syms = WindowContext(x, k)
                  /\ WindowLast(x, k) \in DOMAIN ngram_counts[k][key]
        /\ TableTotal(ngram_counts[k], DOMAIN ngram_counts[k]) = Cardinality(Windows(k))

\* all five tables trained on a list of two words, the empty word among
\* them, in which some window of the 5-gram table occurs twice
C17_Witness ==
    /\ lm_pc = "idle"
    /\ Len(ngram_counts) = 5
    /\ Len(train_set) = 2
    /\ \E w \in 1..2 : train_set[w] = << >>
    /\ \E key \in DOMAIN ngram_counts[5] :
          \E sym \in DOMAIN ngram_counts[5][key] : ngram_counts[5][key][sym] = 2

=============================================================================
